---- MODULE Spec2Model ----
(***************************************************************************)
(* A model of secure_automation.py: the SecureAutomation session (private  *)
(* temp directory, write_secure_file, _secure_delete, cleanup), the path   *)
(* validator, the command executor and the audit log.                      *)
(*                                                                         *)
(* SecureAutomation is synchronous and single-threaded: one call runs at a *)
(* time, and pc is the position inside the running call.  The only         *)
(* concurrent party is an outside reader of a write_secure_file            *)
(* destination.  Every I/O step may also fail with an OSError, and no      *)
(* method of the class catches one, so the failure ends the running call.  *)
(***************************************************************************)
EXTENDS Naturals, Sequences, FiniteSets

VARIABLES
    rootExists,  \* self.temp_dir exists on disk
    fs,          \* path -> file (the filesystem entries the session touches)
    pc,          \* position of the session thread inside the running call
    ret,         \* [op, status] of the running / last call
    pre,         \* filesystem at the start of the running / last call
    w,           \* frame of write_secure_file
    sd,          \* frame of _secure_delete
    cl,          \* frame of cleanup
    rd           \* the outside reader of the write destination

VARIABLES
    vp,          \* the last validate_path call: its arguments and its outcome
    cmd,         \* the execute_command call: its arguments, position and outcome
    proc,        \* the external process of the call
    elapsed,     \* time since the process was started
    auditFile,   \* AUDIT_FILE: its lines, in file order
    clock,       \* the system's UTC wall clock
    tokens,      \* how many tokens the session has drawn from secrets
    au,          \* the audit_log call: position, the file before it, outcome
    setBack      \* whether the wall clock has ever been set back

storageVars == <<rootExists, fs, pc, ret, pre, w, sd, cl, rd>>
cmdVars == <<cmd, proc, elapsed>>
auditVars == <<auditFile, clock, tokens, au, setBack>>

vars == <<storageVars, vp, cmdVars, auditVars>>

(* The components share no state: a step of one leaves the others alone. *)
nonStorage == <<vp, cmdVars, auditVars>>
nonPath == <<storageVars, cmdVars, auditVars>>
nonCmd == <<storageVars, vp, auditVars>>
nonAudit == <<storageVars, vp, cmdVars>>

----------------------------------------------------------------------------
(* Bounds *)

MaxLen == 2      \* longest file content, in bytes
MaxPasses == 2   \* largest passes argument of a direct _secure_delete call

(* Program constants *)

DefaultPasses == 3   \* _secure_delete(file_path, passes=3)

DataBytes == {1, 2}      \* byte values of caller content
RandomBytes == {3}       \* a byte of os.urandom: its value is not followed
ZeroByte == {0}          \* b'\x00'

RECURSIVE SeqsOfLen(_, _)
SeqsOfLen(S, n) ==
    IF n = 0 THEN {<<>>}
    ELSE {Append(s, x) : s \in SeqsOfLen(S, n - 1), x \in S}

Contents == UNION {SeqsOfLen(DataBytes, n) : n \in 0..MaxLen}

(* One content of each length: _secure_delete and cleanup read only a file's *)
(* size, never its bytes.                                                    *)
SizedContents == {[i \in 1..n |-> 1] : n \in 0..MaxLen}

ScratchPaths == {"root/temp_a"}                  \* temp_dir / temp_<token>
NestedPaths == {"root/sub/data"}                 \* a file in a subdirectory of temp_dir
OutsidePaths == {"out/data"}                     \* a file outside temp_dir
RootPaths == ScratchPaths \cup NestedPaths
Paths == RootPaths \cup OutsidePaths
DestPaths == NestedPaths \cup OutsidePaths

NoFile == [ex |-> FALSE, content |-> <<>>]
File(c) == [ex |-> TRUE, content |-> c]

NoRead == [st |-> "idle", attached |-> FALSE, snap |-> <<>>, buf |-> <<>>,
           obs |-> [ex |-> FALSE, content |-> <<>>]]

(* The frames of calls that are not running. *)
NoWrite == [dest |-> "out/data", content |-> <<>>, target |-> "root/temp_a",
            mode |-> "none"]
NoDelete == [path |-> "out/data", size |-> 0, passes |-> 0, log |-> <<>>,
             unlinked |-> FALSE, caller |-> "user"]
NoCleanup == [todo |-> {}, shredded |-> {}]
NoCall == [op |-> "none", status |-> "ok"]
NoSnapshot == [root |-> FALSE, fs |-> [p \in Paths |-> NoFile]]

InitStorage ==
    /\ rootExists = TRUE
    /\ \E f \in {NoFile} \cup {File(c) : c \in SizedContents} :
          fs = [p \in Paths |-> IF p \in OutsidePaths THEN f ELSE NoFile]
    /\ pc = "idle"
    /\ ret = NoCall
    /\ pre = NoSnapshot
    /\ w = NoWrite
    /\ sd = NoDelete
    /\ cl = NoCleanup
    /\ rd = NoRead

(* A top-level call starts when the session is idle. *)
CanCall == pc = "idle"

Begin == pre' = [root |-> rootExists, fs |-> fs]

Outcome(op, status) == ret' = [op |-> op, status |-> status]

(* No method of the class has a try/except around its I/O: an exception of   *)
(* any step ends the call and reaches the caller.                            *)
Raise == pc' = "done" /\ ret' = [ret EXCEPT !.status = "raised"]

----------------------------------------------------------------------------
(* write_secure_file(file_path, content, permissions=0o600) *)

WriteTargetInPlace(dest, scratch) == dest

(* temp_path = self.temp_dir / f"temp_{secrets.token_hex(8)}": the file the  *)
(* content is written to.                                                    *)
WriteTarget(dest, scratch) == scratch

(* open(path, 'w'): creates the file, or truncates the one that is there. *)
OpenForWrite(f) == File(<<>>)

(* secrets.token_hex(8) is fresh: the scratch name is one that does not      *)
(* exist (which of the free names it is makes no difference).                *)
FreshScratch ==
    IF \E t \in ScratchPaths : ~fs[t].ex
    THEN {CHOOSE t \in ScratchPaths : ~fs[t].ex}
    ELSE {}

(* The call up to open(temp_path, 'w').  The open fails when temp_dir is     *)
(* gone.                                                                     *)
WriteCall(dest, content) ==
    /\ CanCall
    /\ Begin
    /\ rd' = NoRead
    /\ \E t \in FreshScratch :
          /\ w' = [dest |-> dest, content |-> content,
                   target |-> WriteTarget(dest, t), mode |-> "umask"]
          /\ IF rootExists
             THEN /\ fs' = [fs EXCEPT ![w'.target] = OpenForWrite(fs[w'.target])]
                  /\ pc' = "w_write"
                  /\ Outcome("write", "pending")
             ELSE /\ fs' = fs
                  /\ pc' = "done"
                  /\ Outcome("write", "raised")
    /\ UNCHANGED <<rootExists, sd, cl>>
    /\ UNCHANGED nonStorage

(* f.write(content) and the close: the buffered bytes reach the file in one  *)
(* or more writes; then the with-block ends.                                 *)
WriteData ==
    /\ pc = "w_write"
    /\ LET f == fs[w.target]
           n == Len(f.content)
       IN IF n < Len(w.content)
          THEN /\ fs' = [fs EXCEPT ![w.target].content = Append(f.content, w.content[n + 1])]
               /\ pc' = "w_write"
          ELSE /\ fs' = fs
               /\ pc' = "w_chmod"
    /\ UNCHANGED <<rootExists, ret, pre, w, sd, cl, rd>>
    /\ UNCHANGED nonStorage

(* os.chmod(temp_path, permissions): the mode of the written file, kept in   *)
(* the frame (no later call reads a file's mode).                            *)
WriteChmod ==
    /\ pc = "w_chmod"
    /\ w' = [w EXCEPT !.mode = "0o600"]
    /\ pc' = "w_replace"
    /\ UNCHANGED <<rootExists, fs, ret, pre, sd, cl, rd>>
    /\ UNCHANGED nonStorage

(* temp_path.replace(file_path): rename(2).  The destination name now leads  *)
(* to the scratch file's inode; a reader that has the old file open keeps    *)
(* the old inode.  Replacing a file by itself changes nothing.               *)
WriteReplace ==
    /\ pc = "w_replace"
    /\ IF w.target = w.dest
       THEN UNCHANGED <<fs, rd>>
       ELSE /\ fs' = [fs EXCEPT ![w.dest] = fs[w.target], ![w.target] = NoFile]
            /\ rd' = IF rd.st = "open" /\ rd.attached
                     THEN [rd EXCEPT !.attached = FALSE, !.snap = fs[w.dest].content]
                     ELSE rd
    /\ pc' = "done"
    /\ Outcome("write", "ok")
    /\ UNCHANGED <<rootExists, pre, w, sd, cl>>
    /\ UNCHANGED nonStorage

(* An OSError in the write, the chmod or the replace (disk full, permission, *)
(* cross-device rename): the call ends, the scratch file stays behind.       *)
WriteFail ==
    /\ pc \in {"w_write", "w_chmod", "w_replace"}
    /\ Raise
    /\ UNCHANGED <<rootExists, fs, pre, w, sd, cl, rd>>
    /\ UNCHANGED nonStorage

(* The outside reader: open(destination) while a write_secure_file call is   *)
(* running, then read to the end of the file, one chunk per step.  An open   *)
(* file is an inode: the reader sees later writes to the same inode, and     *)
(* nothing of a file renamed onto the name afterwards.                       *)
ReaderOpen ==
    /\ pc \in {"w_write", "w_chmod", "w_replace"}
    /\ rd.st = "idle"
    /\ rd' = IF fs[w.dest].ex
             THEN [NoRead EXCEPT !.st = "open", !.attached = TRUE]
             ELSE [NoRead EXCEPT !.st = "done"]
    /\ UNCHANGED <<rootExists, fs, pc, ret, pre, w, sd, cl>>
    /\ UNCHANGED nonStorage

ReaderRead ==
    /\ rd.st = "open"
    /\ LET c == IF rd.attached THEN fs[w.dest].content ELSE rd.snap
           n == Len(rd.buf)
       IN rd' = IF n < Len(c)
                THEN [rd EXCEPT !.buf = Append(rd.buf, c[n + 1])]
                ELSE [rd EXCEPT !.st = "done",
                                !.obs = [ex |-> TRUE, content |-> rd.buf]]
    /\ UNCHANGED <<rootExists, fs, pc, ret, pre, w, sd, cl>>
    /\ UNCHANGED nonStorage

----------------------------------------------------------------------------
(* _secure_delete(file_path, passes=3) *)

Overwrite(kind, n) == [kind |-> kind, n |-> n]

(* The record of a finished _secure_delete: passes random passes, then one   *)
(* zero pass, every one of them size bytes long.                             *)
FullyOverwritten(d) ==
    /\ Len(d.log) = d.passes + 1
    /\ \A i \in 1..d.passes : d.log[i] = Overwrite("random", d.size)
    /\ d.log[d.passes + 1] = Overwrite("zero", d.size)

SDMoreRandomShort == Len(sd.log) + 1 < sd.passes

(* for _ in range(passes): is there another random pass to run? *)
SDMoreRandom == Len(sd.log) < sd.passes

SDSwallow == pc' = "sd_unlink" /\ UNCHANGED ret

(* An exception inside _secure_delete: nothing catches it, neither here nor  *)
(* in cleanup.                                                               *)
SDRaise == Raise

(* Where a finished _secure_delete goes back to: the cleanup loop or the     *)
(* caller of the session.                                                    *)
SDReturn(caller) ==
    IF caller = "cleanup"
    THEN pc' = "cl_iter" /\ UNCHANGED ret
    ELSE pc' = "done" /\ ret' = [ret EXCEPT !.status = "ok"]

(* Entry of _secure_delete: return at once if the path does not exist, else  *)
(* take the file's size.                                                     *)
SDEnter(p, passes, caller) ==
    IF ~fs[p].ex
    THEN /\ sd' = [path |-> p, size |-> 0, passes |-> passes, log |-> <<>>,
                   unlinked |-> FALSE, caller |-> caller]
         /\ pc' = IF caller = "cleanup" THEN "cl_iter" ELSE "done"
    ELSE /\ sd' = [path |-> p, size |-> Len(fs[p].content), passes |-> passes,
                   log |-> <<>>, unlinked |-> FALSE, caller |-> caller]
         /\ pc' = "sd_pass"

DeleteCall(p, passes) ==
    /\ CanCall
    /\ Begin
    /\ SDEnter(p, passes, "user")
    /\ Outcome("delete", IF fs[p].ex THEN "pending" ELSE "ok")
    /\ UNCHANGED <<rootExists, fs, w, cl, rd>>
    /\ UNCHANGED nonStorage

(* One random pass: open(file_path, 'wb') truncates the file, then           *)
(* f.write(os.urandom(file_size)) and the flush.                             *)
SDRandomPass ==
    /\ pc = "sd_pass"
    /\ SDMoreRandom
    /\ \E bytes \in SeqsOfLen(RandomBytes, sd.size) :
          fs' = [fs EXCEPT ![sd.path].content = bytes]
    /\ sd' = [sd EXCEPT !.log = Append(sd.log, Overwrite("random", Len(fs'[sd.path].content)))]
    /\ UNCHANGED <<rootExists, pc, ret, pre, w, cl, rd>>
    /\ UNCHANGED nonStorage

(* The final pass: b'\x00' * file_size. *)
SDZeroPass ==
    /\ pc = "sd_pass"
    /\ ~SDMoreRandom
    /\ \E bytes \in SeqsOfLen(ZeroByte, sd.size) :
          fs' = [fs EXCEPT ![sd.path].content = bytes]
    /\ sd' = [sd EXCEPT !.log = Append(sd.log, Overwrite("zero", Len(fs'[sd.path].content)))]
    /\ pc' = "sd_unlink"
    /\ UNCHANGED <<rootExists, ret, pre, w, cl, rd>>
    /\ UNCHANGED nonStorage

(* file_path.unlink() *)
SDUnlink ==
    /\ pc = "sd_unlink"
    /\ fs' = [fs EXCEPT ![sd.path] = NoFile]
    /\ sd' = [sd EXCEPT !.unlinked = TRUE]
    /\ cl' = IF sd.caller = "cleanup" /\ FullyOverwritten(sd)
             THEN [cl EXCEPT !.shredded = cl.shredded \cup {sd.path}]
             ELSE cl
    /\ SDReturn(sd.caller)
    /\ UNCHANGED <<rootExists, pre, w, rd>>
    /\ UNCHANGED nonStorage

(* An OSError in a pass: the open failed (file untouched), or the open       *)
(* truncated the file and the write failed.                                  *)
SDPassFail ==
    /\ pc = "sd_pass"
    /\ \E truncated \in BOOLEAN :
          fs' = IF truncated THEN [fs EXCEPT ![sd.path].content = <<>>] ELSE fs
    /\ SDRaise
    /\ UNCHANGED <<rootExists, pre, w, sd, cl, rd>>
    /\ UNCHANGED nonStorage

(* An OSError in the unlink. *)
SDUnlinkFail ==
    /\ pc = "sd_unlink"
    /\ SDRaise
    /\ UNCHANGED <<rootExists, fs, pre, w, sd, cl, rd>>
    /\ UNCHANGED nonStorage

----------------------------------------------------------------------------
(* cleanup() *)

CleanupGuardAlways == TRUE

(* if self.temp_dir and self.temp_dir.exists(): temp_dir is set by the       *)
(* constructor and never reset.                                              *)
CleanupGuard == rootExists

EnumerateTopLevel == {p \in ScratchPaths : fs[p].ex}

(* self.temp_dir.rglob('*'): every entry under temp_dir, at any depth. *)
Enumerate == {p \in RootPaths : rootExists /\ fs[p].ex}

CleanupCall ==
    /\ CanCall
    /\ Begin
    /\ IF CleanupGuard
       THEN /\ cl' = [todo |-> Enumerate, shredded |-> {}]
            /\ pc' = "cl_iter"
            /\ Outcome("cleanup", "pending")
       ELSE /\ cl' = NoCleanup
            /\ pc' = "done"
            /\ Outcome("cleanup", "ok")
    /\ UNCHANGED <<rootExists, fs, w, sd, rd>>
    /\ UNCHANGED nonStorage

(* One turn of the loop: if file_path.is_file(): self._secure_delete(file_path) *)
CleanupIter ==
    /\ pc = "cl_iter"
    /\ \E p \in cl.todo :
          /\ cl' = [cl EXCEPT !.todo = cl.todo \ {p}]
          /\ IF fs[p].ex
             THEN SDEnter(p, DefaultPasses, "cleanup")
             ELSE pc' = "cl_iter" /\ sd' = sd
    /\ UNCHANGED <<rootExists, fs, ret, pre, w, rd>>
    /\ UNCHANGED nonStorage

(* shutil.rmtree(self.temp_dir): removes the directory and all it holds;     *)
(* raises FileNotFoundError when the directory is not there.                 *)
CleanupRmtree ==
    /\ pc = "cl_iter"
    /\ cl.todo = {}
    /\ IF rootExists
       THEN /\ rootExists' = FALSE
            /\ fs' = [p \in Paths |-> IF p \in RootPaths THEN NoFile ELSE fs[p]]
            /\ pc' = "done"
            /\ ret' = [ret EXCEPT !.status = "ok"]
       ELSE /\ Raise
            /\ UNCHANGED <<rootExists, fs>>
    /\ UNCHANGED <<pre, w, sd, cl, rd>>
    /\ UNCHANGED nonStorage

(* An OSError in rmtree. *)
CleanupRmtreeFail ==
    /\ pc = "cl_iter"
    /\ cl.todo = {}
    /\ Raise
    /\ UNCHANGED <<rootExists, fs, pre, w, sd, cl, rd>>
    /\ UNCHANGED nonStorage

----------------------------------------------------------------------------
(* The caller has the result of the call (pc = "done": ret and the call's    *)
(* frame are what it returned or raised) and goes on; the frames are gone.   *)
Finish ==
    /\ pc = "done"
    /\ rd.st # "open"
    /\ pc' = "idle"
    /\ ret' = NoCall
    /\ pre' = NoSnapshot
    /\ w' = NoWrite
    /\ sd' = NoDelete
    /\ cl' = NoCleanup
    /\ rd' = NoRead
    /\ UNCHANGED <<rootExists, fs>>
    /\ UNCHANGED nonStorage

----------------------------------------------------------------------------
(* validate_path(path, allowed_base=None) *)

MaxSegs == 3     \* longest path argument, in segments

(* A path string is its sequence of segments (the text between the slashes), *)
(* taken relative to the working directory.  The names a segment can be:     *)
(*   "d"     a plain name                                                    *)
(*   ".."    the parent directory                                            *)
(*   "a..b"  a plain name with two dots inside                               *)
(*   "esc"   in the working directory, a symlink to /etc                     *)
(*   "loop"  in the working directory, a symlink to itself                   *)
(*   "nul"   a name with an embedded NUL character                           *)
Segments == {"d", "..", "a..b", "esc", "loop", "nul"}
PathStrings == UNION {SeqsOfLen(Segments, n) : n \in 0..MaxSegs}

Cwd == <<"home">>
LinkAt == <<"home", "esc">>
LinkTarget == <<"etc">>
LoopAt == <<"home", "loop">>

(* The base directories a caller passes: the working directory, a directory  *)
(* below it, and the symlink that leads out of it.                           *)
Bases == {<<>>, <<"d">>, <<"esc">>}

Front(q) == SubSeq(q, 1, Len(q) - 1)

IsPrefix(b, q) == Len(b) <= Len(q) /\ SubSeq(q, 1, Len(b)) = b

(* os.path.realpath, not strict: the segments are walked from the working    *)
(* directory; ".." drops the last component, a symlink is replaced by its    *)
(* target, a symlink loop and a missing name are kept as they are.           *)
RECURSIVE Walk(_, _)
Walk(cur, segs) ==
    IF segs = <<>> THEN cur
    ELSE LET seg == Head(segs)
             cand == Append(cur, seg)
             nxt == IF seg = ".." THEN Front(cur)
                    ELSE IF cand = LinkAt THEN LinkTarget
                    ELSE cand
         IN Walk(nxt, Tail(segs))

HasSegment(segs, names) == \E i \in 1..Len(segs) : segs[i] \in names

Returned(q) == [kind |-> "return", msg |-> "", value |-> q]
Raised(kind, msg) == [kind |-> kind, msg |-> msg, value |-> <<>>]

(* Path(path).resolve(): the canonical path, or ValueError for an embedded   *)
(* NUL (from os.lstat), or RuntimeError when the result runs through a       *)
(* symlink loop.                                                             *)
Resolve(segs) ==
    IF HasSegment(segs, {"nul"}) THEN Raised("ValueError", "embedded null byte")
    ELSE IF IsPrefix(LoopAt, Walk(Cwd, segs)) THEN Raised("RuntimeError", "Symlink loop")
    ELSE Returned(Walk(Cwd, segs))

(* '..' in str(path): the two characters anywhere in the text.  A slash      *)
(* separates the segments, so they lie inside one segment.                   *)
ContainsDotDot(segs) == HasSegment(segs, {"..", "a..b"})

(* resolved.relative_to(allowed_base): ValueError unless allowed_base is the *)
(* path or one of its ancestors, compared component by component.            *)
RelativeTo(r, b) ==
    IF IsPrefix(b, r) THEN Returned(SubSeq(r, Len(b) + 1, Len(r)))
    ELSE Raised("ValueError", "not in the subpath")

(* The outcome of validate_path, statement by statement. *)
ValidatePathOutcome(path, given, base) ==
    LET resolved == Resolve(path)
    IN IF resolved.kind # "return" THEN resolved
       ELSE IF ContainsDotDot(path)
            THEN Raised("SecurityError", "Path traversal detected")
       ELSE IF ~given THEN resolved
       ELSE LET allowed == Resolve(base)
            IN IF allowed.kind # "return" THEN allowed
               ELSE IF RelativeTo(resolved.value, allowed.value).kind # "return"
                    THEN RelativeTo(resolved.value, allowed.value)
               ELSE resolved

NotCalled == Raised("none", "")

(* The arguments of a call that is about to be made. *)
PathArgs(path, given, base) ==
    [called |-> FALSE, path |-> path, given |-> given, base |-> base,
     out |-> NotCalled]

QuietPath == vp = PathArgs(<<>>, FALSE, <<>>)

InitPath ==
    \E path \in PathStrings, given \in BOOLEAN, base \in Bases :
        /\ given \/ base = <<>>
        /\ vp = PathArgs(path, given, base)

ValidatePath ==
    /\ ~vp.called
    /\ vp' = [vp EXCEPT !.called = TRUE,
                        !.out = ValidatePathOutcome(vp.path, vp.given, vp.base)]
    /\ UNCHANGED nonPath

PathNext == ValidatePath

----------------------------------------------------------------------------
(* execute_command(command, timeout=300, allowed_commands=None) *)

MaxArgs == 2      \* longest command list
MaxTimeout == 2   \* largest timeout argument, in clock ticks

Words == {"echo", "rm"}
Commands == UNION {SeqsOfLen(Words, n) : n \in 0..MaxArgs}
Allowlists == SUBSET {"echo"}

NoProcess == [state |-> "none", rc |-> 0, reaped |-> FALSE]

(* The arguments of a call that is about to be made.  isList is FALSE for a  *)
(* command that is not a list (a str, say); given is FALSE for               *)
(* allowed_commands=None.                                                    *)
CmdArgs(isList, argv, timeout, given, allowed) ==
    [pc |-> "idle", isList |-> isList, argv |-> argv, timeout |-> timeout,
     given |-> given, allowed |-> allowed, out |-> NotCalled]

QuietCmd ==
    /\ cmd = CmdArgs(TRUE, <<>>, 1, FALSE, {})
    /\ proc = NoProcess
    /\ elapsed = 0

InitCmd ==
    /\ \E isList \in BOOLEAN, argv \in Commands, timeout \in 1..MaxTimeout,
          given \in BOOLEAN, allowed \in Allowlists :
          /\ given \/ allowed = {}
          /\ cmd = CmdArgs(isList, argv, timeout, given, allowed)
    /\ proc = NoProcess
    /\ elapsed = 0

(* not command or not isinstance(command, list) *)
InvalidCommand(c) == c.argv = <<>> \/ ~c.isList

(* The truth value of allowed_commands: None and the empty set are false. *)
AllowlistApplies(c) == c.given /\ c.allowed # {}

(* allowed_commands and cmd_name not in allowed_commands *)
NotAllowed(c) == AllowlistApplies(c) /\ c.argv[1] \notin c.allowed

(* The checks, then subprocess.run starts the process. *)
ExecCall ==
    /\ cmd.pc = "idle"
    /\ IF InvalidCommand(cmd)
       THEN /\ cmd' = [cmd EXCEPT !.pc = "done",
                          !.out = Raised("SecurityError", "Command must be a non-empty list")]
            /\ UNCHANGED <<proc, elapsed>>
       ELSE IF NotAllowed(cmd)
       THEN /\ cmd' = [cmd EXCEPT !.pc = "done",
                          !.out = Raised("SecurityError", "Command not allowed")]
            /\ UNCHANGED <<proc, elapsed>>
       ELSE /\ cmd' = [cmd EXCEPT !.pc = "running"]
            /\ proc' = [state |-> "running", rc |-> 0, reaped |-> FALSE]
            /\ elapsed' = 0
    /\ UNCHANGED nonCmd

(* The program cannot be started (it is not installed, say): Popen raises    *)
(* and there is no process.                                                  *)
ExecSpawnFail ==
    /\ cmd.pc = "idle"
    /\ ~InvalidCommand(cmd)
    /\ ~NotAllowed(cmd)
    /\ cmd' = [cmd EXCEPT !.pc = "done", !.out = Raised("OSError", "cannot start")]
    /\ UNCHANGED <<proc, elapsed>>
    /\ UNCHANGED nonCmd

(* Time passes while subprocess.run waits. *)
Tick ==
    /\ cmd.pc = "running"
    /\ elapsed < cmd.timeout
    /\ elapsed' = elapsed + 1
    /\ UNCHANGED <<cmd, proc>>
    /\ UNCHANGED nonCmd

(* The external process ends by itself. *)
ProcExit ==
    /\ proc.state = "running"
    /\ \E rc \in {0, 1} : proc' = [proc EXCEPT !.state = "exited", !.rc = rc]
    /\ UNCHANGED <<cmd, elapsed>>
    /\ UNCHANGED nonCmd

(* communicate() returns: the process has ended and is reaped; the dict of   *)
(* the return statement, as <<returncode, success>>.                         *)
ExecReturn ==
    /\ cmd.pc = "running"
    /\ proc.state = "exited"
    /\ proc' = [proc EXCEPT !.reaped = TRUE]
    /\ cmd' = [cmd EXCEPT !.pc = "done",
                          !.out = Returned(<<proc.rc, proc.rc = 0>>)]
    /\ UNCHANGED elapsed
    /\ UNCHANGED nonCmd

LeaveRunning(p) == p

(* subprocess.run on TimeoutExpired: process.kill(), then process.wait(). *)
KillAndWait(p) ==
    [p EXCEPT !.state = IF p.state = "running" THEN "killed" ELSE p.state,
              !.reaped = TRUE]

(* The timeout expires in communicate(): subprocess.run kills and reaps the  *)
(* process and raises TimeoutExpired again, which execute_command lets pass. *)
ExecTimeout ==
    /\ cmd.pc = "running"
    /\ elapsed = cmd.timeout
    /\ proc' = KillAndWait(proc)
    /\ cmd' = [cmd EXCEPT !.pc = "done",
                          !.out = Raised("TimeoutExpired", "timed out")]
    /\ UNCHANGED elapsed
    /\ UNCHANGED nonCmd

CmdNext ==
    \/ ExecCall
    \/ ExecSpawnFail
    \/ Tick
    \/ ProcExit
    \/ ExecReturn
    \/ ExecTimeout

----------------------------------------------------------------------------
(* audit_log(action, details) *)

MaxAuditCalls == 3   \* audit_log calls in a run
MaxClock == 2        \* wall-clock readings 0..MaxClock

Actions == {"test_run", "write"}

NoAudit == [pc |-> "idle", prev |-> <<>>, now |-> 0, out |-> NotCalled]

InitAudit ==
    /\ auditFile = <<>>
    /\ clock \in 0..MaxClock
    /\ tokens = 0
    /\ au = NoAudit
    /\ setBack = FALSE

QuietAudit == InitAudit /\ clock = 0

(* The wall clock moves on; it is also set back now and then (a time         *)
(* synchronisation step, a manual change): datetime.now reads it as it is.   *)
ClockAdvance ==
    /\ \E t \in 0..MaxClock : t > clock /\ clock' = t
    /\ UNCHANGED <<auditFile, tokens, au, setBack>>
    /\ UNCHANGED nonAudit

ClockSetBack ==
    /\ \E t \in 0..MaxClock : t < clock /\ clock' = t
    /\ setBack' = TRUE
    /\ UNCHANGED <<auditFile, tokens, au>>
    /\ UNCHANGED nonAudit

(* secrets.token_hex(16): 128 random bits, taken as never drawn before. *)
FreshToken == tokens + 1

OverwriteLine(file, line) == <<line>>

(* open(AUDIT_FILE, 'a') and f.write(json.dumps(log_entry) + "\n"): the line *)
(* goes to the end of the file.                                              *)
AppendLine(file, line) == Append(file, line)

(* A whole successful call. *)
AuditLog(action) ==
    /\ au.pc = "idle"
    /\ tokens < MaxAuditCalls
    /\ LET entry == [timestamp |-> clock, action |-> action,
                     session_id |-> FreshToken]
       IN /\ auditFile' = AppendLine(auditFile, entry)
          /\ au' = [pc |-> "done", prev |-> auditFile, now |-> clock,
                    out |-> Returned(<<entry>>)]
    /\ tokens' = FreshToken
    /\ UNCHANGED <<clock, setBack>>
    /\ UNCHANGED nonAudit

(* The call with an OSError from open (or a TypeError from json.dumps for    *)
(* details json cannot encode): nothing is written.                          *)
AuditLogFail ==
    /\ au.pc = "idle"
    /\ tokens < MaxAuditCalls
    /\ au' = [pc |-> "done", prev |-> auditFile, now |-> clock,
              out |-> Raised("OSError", "cannot append")]
    /\ tokens' = FreshToken
    /\ UNCHANGED <<auditFile, clock, setBack>>
    /\ UNCHANGED nonAudit

(* The caller has the outcome and goes on. *)
AuditFinish ==
    /\ au.pc = "done"
    /\ au' = NoAudit
    /\ UNCHANGED <<auditFile, clock, tokens, setBack>>
    /\ UNCHANGED nonAudit

AuditNext ==
    \/ \E action \in Actions : AuditLog(action)
    \/ AuditLogFail
    \/ AuditFinish
    \/ ClockAdvance
    \/ ClockSetBack

----------------------------------------------------------------------------

StorageNext ==
    \/ \E dest \in DestPaths, content \in SizedContents : WriteCall(dest, content)
    \/ WriteData
    \/ WriteChmod
    \/ WriteReplace
    \/ WriteFail
    \/ \E p \in Paths, passes \in 0..MaxPasses : DeleteCall(p, passes)
    \/ SDRandomPass
    \/ SDZeroPass
    \/ SDUnlink
    \/ SDPassFail
    \/ SDUnlinkFail
    \/ CleanupCall
    \/ CleanupIter
    \/ CleanupRmtree
    \/ CleanupRmtreeFail
    \/ Finish

(* One write_secure_file call, from any earlier content of the destinations, *)
(* with the reader running beside it.                                        *)
InitRace ==
    /\ rootExists = TRUE
    /\ fs \in [Paths -> {NoFile} \cup {File(c) : c \in Contents}]
    /\ \A t \in ScratchPaths : ~fs[t].ex
    /\ pc = "idle"
    /\ ret = NoCall
    /\ pre = NoSnapshot
    /\ w = NoWrite
    /\ sd = NoDelete
    /\ cl = NoCleanup
    /\ rd = NoRead

RaceNext ==
    \/ \E dest \in DestPaths, content \in Contents : WriteCall(dest, content)
    \/ WriteData
    \/ WriteChmod
    \/ WriteReplace
    \/ WriteFail
    \/ ReaderOpen
    \/ ReaderRead

(* Each component is checked with the others at rest. *)
QuietStorage == InitStorage /\ \A p \in Paths : ~fs[p].ex

Init == InitStorage /\ QuietPath /\ QuietCmd /\ QuietAudit

Next == StorageNext

Spec == Init /\ [][Next]_vars

RaceInit == InitRace /\ QuietPath /\ QuietCmd /\ QuietAudit

RaceSpec == RaceInit /\ [][RaceNext]_vars

PathInit == QuietStorage /\ InitPath /\ QuietCmd /\ QuietAudit

PathSpec == PathInit /\ [][PathNext]_vars

CmdInit == QuietStorage /\ QuietPath /\ InitCmd /\ QuietAudit

CmdSpec == CmdInit /\ [][CmdNext]_vars

AuditInit == QuietStorage /\ QuietPath /\ QuietCmd /\ InitAudit

AuditSpec == AuditInit /\ [][AuditNext]_vars

----------------------------------------------------------------------------
(* C1: a reader of the destination racing a write_secure_file call reads     *)
(* either the complete content the destination had before the call (or finds *)
(* no file, if there was none) or the complete new content, in every         *)
(* interleaving of its open and reads with the writer's steps.               *)

OldView == [ex |-> pre.fs[w.dest].ex, content |-> pre.fs[w.dest].content]
NewView == [ex |-> TRUE, content |-> w.content]

C1_ReaderSeesOldOrNew == rd.st = "done" => rd.obs \in {OldView, NewView}

(* The reader opened the old file, the replace happened during its reads,    *)
(* and it read the old content to the end.                                   *)
C1_Witness ==
    /\ rd.st = "done"
    /\ rd.obs.ex
    /\ ~rd.attached
    /\ ret = [op |-> "write", status |-> "ok"]
    /\ Len(rd.obs.content) = MaxLen
    /\ Len(w.content) = MaxLen
    /\ rd.obs # NewView

----------------------------------------------------------------------------
(* C2: a _secure_delete(path, passes) call that returns on a file of size N  *)
(* has run exactly passes + 1 overwrites, passes random ones and then one    *)
(* of zeros, each N bytes long, and unlinked the file after them: the file   *)
(* is absent.  On a path that does not exist the call returns without an     *)
(* overwrite, an unlink or any change to the filesystem.                     *)

DeleteReturned == pc = "done" /\ ret = [op |-> "delete", status |-> "ok"]

C2_DeleteOverwritesThenUnlinks ==
    DeleteReturned =>
        IF pre.fs[sd.path].ex
        THEN /\ sd.size = Len(pre.fs[sd.path].content)
             /\ FullyOverwritten(sd)
             /\ sd.unlinked
             /\ ~fs[sd.path].ex
             /\ \A p \in Paths \ {sd.path} : fs[p] = pre.fs[p]
        ELSE /\ sd.log = <<>>
             /\ ~sd.unlinked
             /\ fs = pre.fs
             /\ rootExists = pre.root

(* A file of the largest size deleted with the largest number of passes. *)
C2_Witness ==
    /\ DeleteReturned
    /\ pre.fs[sd.path].ex
    /\ sd.size = MaxLen
    /\ sd.passes = MaxPasses
    /\ ~fs[sd.path].ex

----------------------------------------------------------------------------
(* C4: no file is unlinked by _secure_delete before all its passes + 1       *)
(* overwrites are done; when a step of _secure_delete fails, in a direct     *)
(* call or inside cleanup, the file it was deleting is still there and the   *)
(* call ends with the error; a call in which a deletion did not finish never *)
(* ends without an error.                                                    *)

InDelete ==
    \/ ret.op = "delete" /\ pre.fs[sd.path].ex
    \/ ret.op = "cleanup" /\ sd.caller = "cleanup"

C4_DeleteFailurePropagates ==
    /\ sd.unlinked => FullyOverwritten(sd)
    /\ (pc = "done" /\ ret.op = "delete" /\ ret.status = "raised") => ~sd.unlinked
    /\ (pc = "done" /\ InDelete /\ ret.status = "raised" /\ ~sd.unlinked) =>
           fs[sd.path].ex
    /\ (pc = "done" /\ InDelete /\ ~sd.unlinked) => ret.status = "raised"

(* cleanup ended with the error of a deletion that had done all its random   *)
(* passes, and the file is still there.                                      *)
C4_Witness ==
    /\ pc = "done"
    /\ ret = [op |-> "cleanup", status |-> "raised"]
    /\ sd.caller = "cleanup"
    /\ Len(sd.log) >= DefaultPasses
    /\ ~sd.unlinked
    /\ fs[sd.path].ex

----------------------------------------------------------------------------
(* C5: when cleanup reaches the removal of the directory tree, no regular    *)
(* file is left under the temp root, and each one that was there when        *)
(* cleanup began (scratch files of failed writes too) has been overwritten   *)
(* in full and unlinked by _secure_delete; after cleanup has returned, the   *)
(* root and everything under it are absent.                                  *)

AllShredded ==
    \A p \in RootPaths : ~fs[p].ex /\ (pre.fs[p].ex => p \in cl.shredded)

C5_ShredBeforeRmtree ==
    /\ (pc = "cl_iter" /\ cl.todo = {}) => AllShredded
    /\ (pc = "done" /\ ret = [op |-> "cleanup", status |-> "ok"]) =>
           (~rootExists /\ AllShredded)

(* cleanup returned after it secure-deleted a left-behind scratch file and a *)
(* file in a subdirectory.                                                   *)
C5_Witness ==
    /\ pc = "done"
    /\ ret = [op |-> "cleanup", status |-> "ok"]
    /\ cl.shredded = RootPaths
    /\ ~rootExists

----------------------------------------------------------------------------
(* C6: a cleanup call made when the temp root is already absent returns      *)
(* without an error and changes nothing.                                     *)

C6_CleanupIdempotent ==
    (pc = "done" /\ ret.op = "cleanup" /\ ~pre.root) =>
        /\ ret.status = "ok"
        /\ fs = pre.fs
        /\ ~rootExists
        /\ cl = NoCleanup
        /\ sd = NoDelete

(* A second cleanup, with a file outside the root left as it was. *)
C6_Witness ==
    /\ pc = "done"
    /\ ret = [op |-> "cleanup", status |-> "ok"]
    /\ ~pre.root
    /\ fs["out/data"].ex

----------------------------------------------------------------------------
(* C7 (as claimed): every validate_path call on a path with a ".." segment   *)
(* fails with the path-traversal SecurityError.                              *)

C7_TraversalAlwaysRejected ==
    (vp.called /\ HasSegment(vp.path, {".."})) =>
        vp.out = Raised("SecurityError", "Path traversal detected")

----------------------------------------------------------------------------
(* C8 (as claimed): with allowed_base given, validate_path returns only a    *)
(* canonical path equal to or below the canonical base, and fails with a     *)
(* SecurityError for every path that resolves outside the base.              *)

ResolvesOutside ==
    /\ vp.given
    /\ Resolve(vp.path).kind = "return"
    /\ Resolve(vp.base).kind = "return"
    /\ ~IsPrefix(Resolve(vp.base).value, Resolve(vp.path).value)

C8_EscapeIsSecurityError ==
    /\ (vp.called /\ vp.given /\ vp.out.kind = "return") =>
           IsPrefix(Resolve(vp.base).value, vp.out.value)
    /\ (vp.called /\ ResolvesOutside) => vp.out.kind = "SecurityError"

----------------------------------------------------------------------------
(* C3 (as claimed): whenever an allowlist is given, the empty one too, and   *)
(* command[0] is not in it, execute_command fails with the not-allowed       *)
(* SecurityError and no process is started.                                  *)

C3_DefaultDeny ==
    (/\ cmd.pc # "idle"
     /\ ~InvalidCommand(cmd)
     /\ cmd.given
     /\ cmd.argv[1] \notin cmd.allowed) =>
        /\ cmd.out = Raised("SecurityError", "Command not allowed")
        /\ proc.state = "none"

----------------------------------------------------------------------------
(* C9: when execute_command has returned or raised, the process it started   *)
(* is not running: it has ended and is reaped.  A call whose process was     *)
(* still running when the timeout expired ends with TimeoutExpired and the   *)
(* process killed; a call returns a result only for a process that ended by  *)
(* itself.                                                                   *)

C9_NoProcessOutlivesCall ==
    cmd.pc = "done" =>
        /\ proc.state # "running"
        /\ proc.state # "none" => proc.reaped
        /\ cmd.out.kind = "TimeoutExpired" =>
               (elapsed = cmd.timeout /\ proc.state \in {"killed", "exited"})
        /\ proc.state = "killed" => cmd.out.kind = "TimeoutExpired"
        /\ cmd.out.kind = "return" => proc.state = "exited"

(* The timeout expired on a running process. *)
C9_Witness ==
    /\ cmd.pc = "done"
    /\ cmd.out.kind = "TimeoutExpired"
    /\ proc.state = "killed"
    /\ proc.reaped
    /\ elapsed = MaxTimeout

----------------------------------------------------------------------------
(* C10 (as claimed): each successful audit_log call adds one line at the end *)
(* of the audit file with a fresh session_id and leaves the earlier lines as *)
(* they were, and the timestamps never decrease in file order.               *)

AppendedOne ==
    (au.pc = "done" /\ au.out.kind = "return") =>
        /\ Len(auditFile) = Len(au.prev) + 1
        /\ SubSeq(auditFile, 1, Len(au.prev)) = au.prev
        /\ auditFile[Len(auditFile)] = au.out.value[1]
        /\ auditFile[Len(auditFile)].timestamp = au.now
        /\ \A i \in 1..Len(au.prev) :
               au.prev[i].session_id # auditFile[Len(auditFile)].session_id

NothingOnFailure ==
    (au.pc = "done" /\ au.out.kind # "return") => auditFile = au.prev

TimestampsSorted ==
    \A i, j \in 1..Len(auditFile) :
        i < j => auditFile[i].timestamp <= auditFile[j].timestamp

C10_Original == AppendedOne /\ NothingOnFailure /\ TimestampsSorted

(* C10 (amended): each successful audit_log call adds one line at the end of *)
(* the audit file with a fresh session_id and the wall-clock reading of the  *)
(* call, and leaves the earlier lines as they were; a failed call adds       *)
(* nothing; the timestamps do not decrease in file order as long as the      *)
(* wall clock has not been set back.                                         *)

C10_AppendOnly ==
    /\ AppendedOne
    /\ NothingOnFailure
    /\ ~setBack => TimestampsSorted

(* The last call of a run appended its line after the clock was set back:    *)
(* the earlier lines are in place, the timestamps are out of order.          *)
C10_Witness ==
    /\ au.pc = "done"
    /\ au.out.kind = "return"
    /\ Len(auditFile) = MaxAuditCalls
    /\ setBack
    /\ ~TimestampsSorted

====
